---- MODULE Spec2Model ----
(***************************************************************************)
(* A state-machine model of g10/encode.c: encode_simple (symmetric and     *)
(* store-only), encode_crypt, encrypt_filter, write_pubkey_enc_from_list   *)
(* and the batch driver encode_crypt_files.                                *)
(*                                                                         *)
(* The program is single threaded.  `pc' is the position in the function   *)
(* being executed, `loc' holds that function's local variables, `opt' is   *)
(* the global option block.  Collaborators that live outside encode.c      *)
(* (iobuf, build_packet, pubkey_encrypt, passphrase_to_dek, the keyring)   *)
(* are modelled by their call contract: every result they can hand back    *)
(* is a nondeterministic choice.                                           *)
(***************************************************************************)
EXTENDS Integers, Sequences, FiniteSets, TLC

\* ------------------------------------------------------------------ bounds
MaxRecipients == 2
MaxFiles == 2
MaxSize == 2
MaxChunks == 2
MaxFlush == 2

\* The "very large file" threshold, scaled down to the model's size range.
IOBUF_FILELENGTH_LIMIT == 2

\* ------------------------------------------------------------- vocabulary
NULL == "NULL"
OK == "0"
G10ERR_PASSPHRASE == "G10ERR_PASSPHRASE"
G10ERR_OPEN_FILE == "G10ERR_OPEN_FILE"
G10ERR_WRITE_FILE == "G10ERR_WRITE_FILE"
CIPHER_ALGO_3DES == "CIPHER_ALGO_3DES"
DEFAULT_CIPHER_ALGO == "DEFAULT_CIPHER_ALGO"
NoCipherAlgo == "0"
NoCommonAlgo == "-1"

Sizes == 0..MaxSize
ZeroLen == [n |-> 0, hdr |-> FALSE]
\* pt == NULL: no literal packet was set up
NoPt == [len |-> 0, new_ctb |-> FALSE, mode |-> NULL]

VARIABLES
  prog,     \* the entry point this run executes
  opt,      \* the global option block (options.h: struct opt)
  remusr,   \* the recipient keys the keyring resolves the user ids to
  pc,       \* position of the running function
  loc,      \* locals of the running encode_simple / encode_crypt
  wl,       \* locals of write_pubkey_enc_from_list
  inp,      \* the input stream
  out,      \* the output stream: state, filter stack, what was written
  deks,     \* every DEK allocated so far, with its release count
  efx,      \* the encrypt_filter context
  drv,      \* state of the batch driver encode_crypt_files
  status,   \* status events written for the current item or message
  logs,     \* log_info / log_error messages of the current call
  seen,     \* what each encode_crypt call saw on entry: opt and remusr
  ret       \* the value the latest call returned

vars == <<prog, opt, remusr, pc, loc, wl, inp, out, deks, efx, drv, status,
          logs, seen, ret>>

\* ---------------------------------------------------------------- streams
NoStream == [state |-> NULL, filters |-> <<>>, log |-> <<>>, closes |-> 0,
             cipher_dek |-> 0, written_after_end |-> FALSE]

OpenStream == [NoStream EXCEPT !.state = "open"]

iobuf_push_filter(s, f) == [s EXCEPT !.filters = Append(@, f)]

\* mutant: the cipher filter registered ahead of the armor filter
push_cipher_filter_first(s, dek) ==
  [s EXCEPT !.filters = <<"cipher_filter">> \o @, !.cipher_dek = dek]

\* iobuf_push_filter(out, cipher_filter, &cfx): the filter works with cfx.dek
push_cipher_filter(s, dek) ==
  [iobuf_push_filter(s, "cipher_filter") EXCEPT !.cipher_dek = dek]

\* iobuf_close(NULL) and iobuf_cancel(NULL) do nothing
iobuf_close(s) ==
  IF s.state = NULL THEN s
  ELSE [s EXCEPT !.state = "closed", !.closes = @ + 1]

iobuf_cancel(s) ==
  IF s.state = NULL THEN s
  ELSE [s EXCEPT !.state = "cancelled", !.closes = @ + 1]

RECURSIVE Reverse(_)
Reverse(s) == IF s = <<>> THEN <<>> ELSE Append(Reverse(Tail(s)), Head(s))

\* Data written to a stream is handed to the filters in reverse-push order:
\* the filter pushed last sees it first.
FlushOrder(filters) == Reverse(filters)

\* One write to stream s: ev is what is written, ok whether the write succeeded.
\* The log keeps the filters the data went through, in the order it met them.
iobuf_put(s, ev, ok) ==
  [s EXCEPT !.log = Append(@, [what |-> ev, via |-> FlushOrder(s.filters),
                               ok |-> ok]),
            !.written_after_end = @ \/ s.state # "open"]

\* byte copy_buffer[4096]
CopyBufferSize == 4096

\* what iobuf_read(inp, copy_buffer, 4096) can hand back short of -1: a
\* short chunk or a full buffer
ChunkLens == {1, CopyBufferSize}

\* iobuf_read fills the buffer unless the input ends: after a chunk shorter
\* than the buffer the next iobuf_read gives -1
InputEnded(s) ==
  /\ s.log # <<>>
  /\ s.log[Len(s.log)].what.len < CopyBufferSize

\* One successful iobuf_read from stream s: the chunk is chunk number id of
\* the input and holds len bytes.
iobuf_get(s, id, len) ==
  [s EXCEPT !.log = Append(@, [what |-> [kind |-> "read", chunk |-> id,
                                         len |-> len],
                               via |-> FlushOrder(s.filters), ok |-> TRUE])]

\* the copy_buffer written out: the bytes of chunk id, len of them
RawChunk(id, len) == [kind |-> "raw", chunk |-> id, len |-> len]

\* ------------------------------------------------------------------- DEKs
\* m_alloc_secure_clear / passphrase_to_dek: a new DEK, named by its index
NewDek(d) == Append(deks, d)

\* m_free(p): m_free(NULL) is a no-op; a DEK lives in secure memory, which
\* m_free wipes as it releases it
m_free_dek(ds, id) ==
  IF id = 0 THEN ds ELSE [ds EXCEPT ![id].freed = @ + 1]

\* --------------------------------------------------------------- options
Options ==
  [compress : BOOLEAN, rfc1991 : BOOLEAN, armor : BOOLEAN,
   textmode : BOOLEAN, no_literal : BOOLEAN, pgp2 : BOOLEAN,
   def_cipher_algo : {NoCipherAlgo, "CIPHER_ALGO_CAST5"},
   outfile : BOOLEAN]

NoLocals ==
  [fn |-> "none", filename |-> NULL, mode |-> 0, rc |-> OK,
   do_compress |-> FALSE, filesize |-> 0, declared |-> 0, pt |-> NoPt,
   got |-> "unasked",
   s2k |-> FALSE, dek |-> 0, datalen |-> ZeroLen, pk_list |-> <<>>,
   pk_released |-> FALSE, pgp2_in |-> FALSE, nread |-> 0, failed |-> {},
   probe_off |-> FALSE, zip_asked |-> FALSE, compr_algo |-> 0]

NoWl == [i |-> 0, dek |-> 0, rc |-> OK, caller |-> "none"]

NoEfx == [header_okay |-> FALSE, dek |-> 0, pk_list |-> <<>>, flushes |-> 0,
          ready_at |-> 0, described |-> FALSE, freed |-> FALSE]

\* given: the nfiles argument; trace: what the driver did, item by item
NoDrv == [nfiles |-> 0, k |-> 0, from_stdin |-> FALSE, cur |-> NULL,
          given |-> 0, trace |-> <<>>]

\* what a function does on `return rc' to its caller
Return(rc) ==
  /\ ret' = rc
  /\ pc' = IF prog = "encode_crypt_files" THEN "cf_done_item" ELSE "done"

\* ============================================================ encode_simple
\* encode_symmetric / encode_store call encode_simple(filename, mode)
ES_Call ==
  /\ pc = "main"
  /\ prog \in {"encode_symmetric", "encode_store"}
  /\ \E filename \in {NULL, "file"} :
       loc' = [NoLocals EXCEPT
                 !.fn = "encode_simple",
                 !.filename = filename,
                 !.mode = IF prog = "encode_symmetric" THEN 1 ELSE 0,
                 !.do_compress = opt.compress /\ ~opt.rfc1991]
  /\ pc' = "es_probe"
  /\ logs' = {}
  /\ UNCHANGED <<prog, opt, remusr, wl, inp, out, deks, efx, drv, status,
                 seen, ret>>

\* is_file_compressed(filename, &rc): a positive probe switches compression
\* off; a probe error returns before anything is opened
ES_Probe ==
  /\ pc = "es_probe"
  /\ \E compressed \in BOOLEAN, rc \in {OK, G10ERR_OPEN_FILE} :
       /\ loc' = [loc EXCEPT !.do_compress = IF compressed THEN FALSE ELSE @,
                             !.rc = rc,
                             !.failed = IF rc # OK THEN @ \cup {"probe"}
                                        ELSE @]
       /\ IF rc # OK
            THEN Return(rc)
            ELSE pc' = "es_open_in" /\ UNCHANGED ret
  /\ UNCHANGED <<prog, opt, remusr, wl, inp, out, deks, efx, drv, status,
                 logs, seen>>

\* iobuf_open(filename), then the text filter on the input
ES_OpenIn ==
  /\ pc = "es_open_in"
  /\ \/ /\ logs' = logs \cup {"error: can't open"}
        /\ loc' = [loc EXCEPT !.rc = G10ERR_OPEN_FILE,
                              !.failed = @ \cup {"open_in"}]
        /\ Return(G10ERR_OPEN_FILE)
        /\ UNCHANGED inp
     \/ /\ inp' = IF opt.textmode
                    THEN iobuf_push_filter(OpenStream, "text_filter")
                    ELSE OpenStream
        /\ pc' = "es_dek"
        /\ UNCHANGED <<loc, logs, ret>>
  /\ UNCHANGED <<prog, opt, remusr, wl, out, deks, efx, drv, status, seen>>

\* mutant: only a missing DEK is an error, a DEK without key bytes is used
PassphraseFailed_NullOnly(got) == got = "none"

\* !cfx.dek || !cfx.dek->keylen, of what passphrase_to_dek handed back
PassphraseFailed(got) == got \in {"none", "nokey"}

\* mode != 0: derive the DEK from the passphrase; no DEK or a DEK without
\* key bytes is a passphrase error
ES_Dek ==
  /\ pc = "es_dek"
  /\ IF loc.mode = 0
       THEN /\ pc' = "es_open_out"
            /\ UNCHANGED <<loc, inp, deks, logs, ret>>
       ELSE \E got \in {"none", "nokey", "key"} :
              LET algo == IF opt.def_cipher_algo # NoCipherAlgo
                            THEN opt.def_cipher_algo ELSE "S2K_CIPHER_ALGO"
                  nd == NewDek([algo |-> algo, use_mdc |-> FALSE,
                                pref |-> "unasked",
                                keylen |-> IF got = "key" THEN 1 ELSE 0,
                                freed |-> 0, by |-> "encode_simple"])
                  id == IF got = "none" THEN 0 ELSE Len(nd)
                  ds == IF got = "none" THEN deks ELSE nd
              IN IF PassphraseFailed(got)
                   THEN /\ deks' = m_free_dek(ds, id)
                        /\ loc' = [loc EXCEPT !.rc = G10ERR_PASSPHRASE,
                                              !.dek = id, !.s2k = FALSE,
                                              !.got = got,
                                              !.failed = @ \cup {"passphrase"}]
                        /\ inp' = iobuf_close(inp)
                        /\ logs' = logs \cup {"error: creating passphrase"}
                        /\ Return(G10ERR_PASSPHRASE)
                   ELSE /\ deks' = ds
                        /\ loc' = [loc EXCEPT !.dek = id, !.s2k = TRUE,
                                              !.got = got]
                        /\ pc' = "es_open_out"
                        /\ UNCHANGED <<inp, logs, ret>>
  /\ UNCHANGED <<prog, opt, remusr, wl, out, efx, drv, status, seen>>

\* mutant: when the output cannot be opened the input is left as it is
ES_OpenOut_LeakInput ==
  /\ pc = "es_open_out"
  /\ \/ /\ deks' = m_free_dek(deks, loc.dek)
        /\ loc' = [loc EXCEPT !.rc = G10ERR_OPEN_FILE, !.s2k = FALSE,
                              !.failed = @ \cup {"open_out"}]
        /\ Return(G10ERR_OPEN_FILE)
        /\ UNCHANGED <<inp, out>>
     \/ /\ out' = OpenStream
        /\ pc' = "es_armor"
        /\ UNCHANGED <<inp, deks, loc, ret>>
  /\ UNCHANGED <<prog, opt, remusr, wl, efx, drv, status, logs, seen>>

\* open_outfile(filename, armor, &out); on failure nothing was opened
ES_OpenOut ==
  /\ pc = "es_open_out"
  /\ \/ /\ inp' = iobuf_cancel(inp)
        /\ deks' = m_free_dek(deks, loc.dek)
        /\ loc' = [loc EXCEPT !.rc = G10ERR_OPEN_FILE, !.s2k = FALSE,
                              !.failed = @ \cup {"open_out"}]
        /\ Return(G10ERR_OPEN_FILE)
        /\ UNCHANGED out
     \/ /\ out' = OpenStream
        /\ pc' = "es_armor"
        /\ UNCHANGED <<inp, deks, loc, ret>>
  /\ UNCHANGED <<prog, opt, remusr, wl, efx, drv, status, logs, seen>>

ES_Armor ==
  /\ pc = "es_armor"
  /\ out' = IF opt.armor THEN iobuf_push_filter(out, "armor_filter") ELSE out
  /\ pc' = "es_symkey"
  /\ UNCHANGED <<prog, opt, remusr, loc, wl, inp, deks, efx, drv, status,
                 logs, seen, ret>>

\* mutant: the session-key packet is written in rfc1991 format too
ES_Symkey_AnyFormat ==
  /\ pc = "es_symkey"
  /\ IF loc.s2k
       THEN \E rc \in {OK, G10ERR_WRITE_FILE} :
              /\ out' = iobuf_put(out, [kind |-> "symkey_enc",
                                        algo |-> deks[loc.dek].algo], rc = OK)
              /\ loc' = [loc EXCEPT
                           !.rc = rc,
                           !.failed = IF rc # OK THEN @ \cup {"symkey_enc"}
                                      ELSE @]
              /\ logs' = IF rc # OK
                           THEN logs \cup {"error: build symkey packet failed"}
                           ELSE logs
       ELSE UNCHANGED <<out, loc, logs>>
  /\ pc' = "es_setup"
  /\ UNCHANGED <<prog, opt, remusr, wl, inp, deks, efx, drv, status, seen,
                 ret>>

\* the symmetric session-key packet; a failed build_packet is logged and rc
\* keeps the error, but the function goes on
ES_Symkey ==
  /\ pc = "es_symkey"
  /\ IF loc.s2k /\ ~opt.rfc1991
       THEN \E rc \in {OK, G10ERR_WRITE_FILE} :
              /\ out' = iobuf_put(out, [kind |-> "symkey_enc",
                                        algo |-> deks[loc.dek].algo], rc = OK)
              /\ loc' = [loc EXCEPT
                           !.rc = rc,
                           !.failed = IF rc # OK THEN @ \cup {"symkey_enc"}
                                      ELSE @]
              /\ logs' = IF rc # OK
                           THEN logs \cup {"error: build symkey packet failed"}
                           ELSE logs
       ELSE UNCHANGED <<out, loc, logs>>
  /\ pc' = "es_setup"
  /\ UNCHANGED <<prog, opt, remusr, wl, inp, deks, efx, drv, status, seen,
                 ret>>

\* opt.set_filesize is read in one place of a call, the set-up of the inner
\* packet, and nothing writes it: a single-message run draws its value where
\* it is read (not given, below the limit, at the limit); a batch run has it
\* at 0.
SetFileSizes ==
  IF prog = "encode_crypt_files" THEN {0} ELSE {0, 1, IOBUF_FILELENGTH_LIMIT}

\* The length to declare: the length of a named file read in binary mode, 0
\* when it reaches the limit; otherwise the caller's --set-filesize, as given.
FileSize(filename, flen, set_filesize) ==
  IF filename # NULL /\ ~opt.textmode
    THEN (IF flen >= IOBUF_FILELENGTH_LIMIT THEN 0 ELSE flen)
    ELSE set_filesize

\* the size the caller or the file system declares for the plaintext
DeclaredSize(filename, flen, set_filesize) ==
  IF filename # NULL /\ ~opt.textmode THEN flen ELSE set_filesize

\* the literal packet's descriptor
Plaintext(filesize) ==
  [len |-> filesize, new_ctb |-> (filesize = 0) /\ ~opt.rfc1991,
   mode |-> IF opt.textmode THEN "t" ELSE "b"]

\* calc_packet_length(&pkt): the body length plus the packet's header
calc_packet_length(pt) == [n |-> pt.len, hdr |-> TRUE]

\* mutant: the length is declared whenever the file size is known
DataLen_IgnoreCompress(filesize, do_compress) ==
  IF opt.no_literal
    THEN (IF filesize # 0
            THEN [n |-> filesize, hdr |-> FALSE] ELSE ZeroLen)
    ELSE (IF filesize # 0
            THEN calc_packet_length(Plaintext(filesize)) ELSE ZeroLen)

\* cfx.datalen
DataLen(filesize, do_compress) ==
  IF opt.no_literal
    THEN (IF filesize # 0 /\ ~do_compress
            THEN [n |-> filesize, hdr |-> FALSE] ELSE ZeroLen)
    ELSE (IF filesize # 0 /\ ~do_compress
            THEN calc_packet_length(Plaintext(filesize)) ELSE ZeroLen)

\* set up the inner packet, the declared length and cfx.datalen
ES_Setup ==
  /\ pc = "es_setup"
  /\ \E flen \in Sizes, set_filesize \in SetFileSizes :
       LET filesize == FileSize(loc.filename, flen, set_filesize) IN
       /\ loc' = [loc EXCEPT
                    !.filesize = filesize,
                    !.declared = DeclaredSize(loc.filename, flen,
                                            set_filesize),
                    !.pt = IF opt.no_literal THEN NoPt
                           ELSE Plaintext(filesize),
                    !.datalen = DataLen(filesize, loc.do_compress)]
       /\ logs' = IF loc.filename # NULL /\ ~opt.textmode /\ flen = 0
                    THEN logs \cup {"info: WARNING: empty file"} ELSE logs
  /\ pc' = "es_push_cipher"
  /\ UNCHANGED <<prog, opt, remusr, wl, inp, out, deks, efx, drv, status,
                 seen, ret>>

\* register the cipher filter
ES_PushCipher ==
  /\ pc = "es_push_cipher"
  /\ out' = IF loc.mode # 0 THEN push_cipher_filter(out, loc.dek) ELSE out
  /\ pc' = "es_push_compress"
  /\ UNCHANGED <<prog, opt, remusr, loc, wl, inp, deks, efx, drv, status,
                 logs, seen, ret>>

\* register the compress filter
ES_PushCompress ==
  /\ pc = "es_push_compress"
  /\ out' = IF loc.do_compress THEN iobuf_push_filter(out, "compress_filter")
            ELSE out
  /\ pc' = IF opt.no_literal THEN "es_copy" ELSE "es_literal"
  /\ UNCHANGED <<prog, opt, remusr, loc, wl, inp, deks, efx, drv, status,
                 logs, seen, ret>>

\* do the work: the literal packet; rc is assigned build_packet's result
ES_Literal ==
  /\ pc = "es_literal"
  /\ \E rc \in {OK, G10ERR_WRITE_FILE} :
       /\ out' = iobuf_put(out, [kind |-> "plaintext", pt |-> loc.pt],
                           rc = OK)
       /\ loc' = [loc EXCEPT
                    !.rc = rc,
                    !.failed = IF rc # OK THEN @ \cup {"plaintext"} ELSE @]
       /\ logs' = IF rc # OK THEN logs \cup {"error: build_packet failed"}
                  ELSE logs
  /\ pc' = "es_finish"
  /\ UNCHANGED <<prog, opt, remusr, wl, inp, deks, efx, drv, status, seen,
                 ret>>

\* mutant: a failed write sets rc but the loop goes on (the break is missing)
ES_Copy_NoBreak ==
  /\ pc = "es_copy"
  /\ \/ /\ pc' = "es_finish"
        /\ UNCHANGED <<inp, out, loc, logs>>
     \/ /\ loc.nread < MaxChunks
        /\ ~InputEnded(inp)
        /\ \E ok \in BOOLEAN, len \in ChunkLens :
             /\ inp' = iobuf_get(inp, loc.nread + 1, len)
             /\ out' = iobuf_put(out, RawChunk(loc.nread + 1, len), ok)
             /\ loc' = [loc EXCEPT
                          !.nread = @ + 1,
                          !.rc = IF ok THEN @ ELSE G10ERR_WRITE_FILE,
                          !.failed = IF ok THEN @ ELSE @ \cup {"copy"}]
             /\ logs' = IF ok THEN logs
                        ELSE logs \cup {"error: copying input to output failed"}
             /\ pc' = "es_copy"
  /\ UNCHANGED <<prog, opt, remusr, wl, deks, efx, drv, status, seen, ret>>

\* do the work: copy the plain data, a chunk of at most 4096 bytes at a time
ES_Copy ==
  /\ pc = "es_copy"
  /\ \/ /\ pc' = "es_finish"                       \* iobuf_read gives -1
        /\ UNCHANGED <<inp, out, loc, logs>>
     \/ /\ loc.nread < MaxChunks
        /\ ~InputEnded(inp)
        /\ \E ok \in BOOLEAN, len \in ChunkLens :
             /\ inp' = iobuf_get(inp, loc.nread + 1, len)
             /\ out' = iobuf_put(out, RawChunk(loc.nread + 1, len), ok)
             /\ loc' = [loc EXCEPT
                          !.nread = @ + 1,
                          !.rc = IF ok THEN @ ELSE G10ERR_WRITE_FILE,
                          !.failed = IF ok THEN @ ELSE @ \cup {"copy"}]
             /\ logs' = IF ok THEN logs
                        ELSE logs \cup {"error: copying input to output failed"}
             /\ pc' = IF ok THEN "es_copy" ELSE "es_finish"
  /\ UNCHANGED <<prog, opt, remusr, wl, deks, efx, drv, status, seen, ret>>

\* mutant: the status is written after every successful close, whatever the
\* mode
ES_Finish_StatusInAnyMode ==
  /\ pc = "es_finish"
  /\ inp' = iobuf_close(inp)
  /\ out' = IF loc.rc # OK THEN iobuf_cancel(out) ELSE iobuf_close(out)
  /\ status' = IF loc.rc = OK THEN Append(status, "END_ENCRYPTION")
               ELSE status
  /\ deks' = m_free_dek(deks, loc.dek)
  /\ loc' = [loc EXCEPT !.s2k = FALSE]
  /\ Return(loc.rc)
  /\ UNCHANGED <<prog, opt, remusr, wl, efx, drv, logs, seen>>

\* finish the stuff
ES_Finish ==
  /\ pc = "es_finish"
  /\ inp' = iobuf_close(inp)
  /\ out' = IF loc.rc # OK THEN iobuf_cancel(out) ELSE iobuf_close(out)
  /\ status' = IF loc.rc = OK /\ loc.mode # 0
                 THEN Append(status, "END_ENCRYPTION") ELSE status
  /\ deks' = m_free_dek(deks, loc.dek)
  /\ loc' = [loc EXCEPT !.s2k = FALSE]
  /\ Return(loc.rc)
  /\ UNCHANGED <<prog, opt, remusr, wl, efx, drv, logs, seen>>

encode_simple ==
  \/ ES_Call \/ ES_Probe \/ ES_OpenIn \/ ES_Dek \/ ES_OpenOut \/ ES_Armor
  \/ ES_Symkey \/ ES_Setup \/ ES_PushCipher \/ ES_PushCompress
  \/ ES_Literal \/ ES_Copy \/ ES_Finish

\* ============================================================= the keyring
\* legacy_ok: is_RSA(pubkey_algo) && nbits_from_pk(pk) <= 2048; mdc: the key
\* carries the MDC feature.  Two kinds of key are drawn: an RSA key of the
\* PGP 2 kind (small, no MDC feature) and an OpenPGP key that is not usable
\* in --pgp2 mode and carries the MDC feature.
Key ==
  {[legacy_ok |-> TRUE, mdc |-> FALSE], [legacy_ok |-> FALSE, mdc |-> TRUE]}

\* pk lists of 1..n keys; a key's id is its place in the list
KeyLists(lo) == UNION {[1..n -> Key] : n \in lo..MaxRecipients}

\* select_mdc_from_pklist(pk_list): every key of the list supports the MDC
select_mdc_from_pklist(pk_list) ==
  \A i \in 1..Len(pk_list) : pk_list[i].mdc

\* mutant: the MDC flag is worked out only where the cipher comes from the
\* preferences, and stays 0 with an override
DekUseMdc_UnlessOverride(pk_list) ==
  opt.def_cipher_algo = NoCipherAlgo /\ select_mdc_from_pklist(pk_list)

\* dek->use_mdc = select_mdc_from_pklist(pk_list): one call, on the whole
\* list, whatever the cipher was taken from
DekUseMdc(pk_list) == select_mdc_from_pklist(pk_list)

\* is_RSA(pk->pubkey_algo) && nbits_from_pk(pk) <= 2048, for every key
AllLegacyKeys(pk_list) ==
  \A i \in 1..Len(pk_list) : pk_list[i].legacy_ok

\* =============================================== write_pubkey_enc_from_list
\* mutant: the loop ends before the last key (pk_list->next as the test)
WpkDone_SkipLast(i, pk_list) == i >= Len(pk_list)

\* for( ; pk_list; pk_list = pk_list->next ): the loop ends after the last key
WpkDone(i, pk_list) == i > Len(pk_list)

\* One turn of the loop over pk_list: wrap the DEK for the key, write the
\* packet, and return at the first error; return 0 after the last key.
WritePubkeyEnc ==
  /\ pc = "wpk"
  /\ LET pk_list == IF wl.caller = "encode_crypt" THEN loc.pk_list
                    ELSE efx.pk_list
         back == IF wl.caller = "encode_crypt" THEN "ec_after_wpk"
                 ELSE "ef_after_wpk"
     IN IF WpkDone(wl.i, pk_list)
          THEN /\ wl' = [wl EXCEPT !.rc = OK]
               /\ pc' = back
               /\ UNCHANGED <<out, logs>>
          ELSE \E rc_enc \in {OK, "G10ERR_PUBKEY_ALGO"},
                  rc_put \in {OK, G10ERR_WRITE_FILE} :
                 LET rc == IF rc_enc # OK THEN rc_enc ELSE rc_put IN
                 /\ rc_enc # OK => rc_put = OK
                 /\ out' = IF rc_enc # OK THEN out
                           ELSE iobuf_put(out, [kind |-> "pubkey_enc",
                                                keyid |-> wl.i,
                                                dek |-> wl.dek], rc_put = OK)
                 /\ logs' = IF rc_enc # OK
                              THEN logs \cup {"error: pubkey_encrypt failed"}
                            ELSE IF rc_put # OK
                              THEN logs \cup
                                     {"error: build_packet(pubkey_enc) failed"}
                            ELSE logs
                 /\ wl' = [wl EXCEPT !.rc = rc,
                                     !.i = IF rc = OK THEN @ + 1 ELSE @]
                 /\ pc' = IF rc = OK THEN "wpk" ELSE back
  /\ UNCHANGED <<prog, opt, remusr, loc, inp, deks, efx, drv, status, seen,
                 ret>>

\* ============================================================= encode_crypt
\* entry: called by the main program, or by encode_crypt_files for one item
EC_Call ==
  /\ \/ pc = "main" /\ prog = "encode_crypt"
     \/ pc = "cf_call"
  /\ \E filename \in {NULL, "file"} :
       /\ pc = "cf_call" => filename = drv.cur
       /\ loc' = [NoLocals EXCEPT
                    !.fn = "encode_crypt",
                    !.filename = filename,
                    !.pgp2_in = opt.pgp2,
                    !.do_compress = opt.compress /\ ~opt.rfc1991]
  /\ seen' = Append(seen, [opt |-> opt, remusr |-> remusr])
  /\ inp' = NoStream
  /\ out' = NoStream
  /\ wl' = NoWl
  /\ logs' = {}
  /\ drv' = IF pc = "cf_call"
              THEN [drv EXCEPT !.trace = Append(@, [ev |-> "call",
                                                    item |-> drv.k])]
              ELSE drv
  /\ pc' = "ec_build_pk_list"
  /\ UNCHANGED <<prog, opt, remusr, deks, efx, status, ret>>

\* build_pk_list(remusr, &pk_list, PUBKEY_USAGE_ENC); an error returns at once
EC_BuildPkList ==
  /\ pc = "ec_build_pk_list"
  /\ \/ \E rc \in {"G10ERR_NO_USER_ID"} :
          /\ loc' = [loc EXCEPT !.rc = rc, !.failed = @ \cup {"pk_list"}]
          /\ Return(rc)
     \/ /\ loc' = [loc EXCEPT !.pk_list = remusr]
        /\ pc' = "ec_pgp2"
        /\ UNCHANGED ret
  /\ UNCHANGED <<prog, opt, remusr, wl, inp, out, deks, efx, drv, status,
                 logs, seen>>

\* mutant: leaving --pgp2 mode also drops the rfc1991 format it implied
ClearPgp2_AndRfc1991(o) == [o EXCEPT !.pgp2 = FALSE, !.rfc1991 = FALSE]

\* opt.pgp2 = 0
ClearPgp2(o) == [o EXCEPT !.pgp2 = FALSE]

\* mutant: a key that does not fit --pgp2 mode is refused with an error
EC_Pgp2_Refuse ==
  /\ pc = "ec_pgp2"
  /\ IF opt.pgp2 /\ ~AllLegacyKeys(loc.pk_list)
       THEN /\ logs' = logs \cup {"error: you can only encrypt to RSA keys of 2048 bits or less in --pgp2 mode"}
            /\ opt' = ClearPgp2(opt)
            /\ loc' = [loc EXCEPT !.rc = "G10ERR_PUBKEY_ALGO"]
            /\ pc' = "ec_leave"
       ELSE /\ pc' = "ec_probe"
            /\ UNCHANGED <<logs, opt, loc>>
  /\ UNCHANGED <<prog, remusr, wl, inp, out, deks, efx, drv, status, seen,
                 ret>>

\* --pgp2 with a key that is not RSA of at most 2048 bits: warn, clear opt.pgp2
EC_Pgp2 ==
  /\ pc = "ec_pgp2"
  /\ IF opt.pgp2 /\ ~AllLegacyKeys(loc.pk_list)
       THEN /\ logs' = logs \cup {"info: you can only encrypt to RSA keys of 2048 bits or less in --pgp2 mode"}
            /\ opt' = ClearPgp2(opt)
       ELSE UNCHANGED <<logs, opt>>
  /\ pc' = "ec_probe"
  /\ UNCHANGED <<prog, remusr, loc, wl, inp, out, deks, efx, drv, status,
                 seen, ret>>

\* is_file_compressed(filename, &rc2); probe_off: the probe found the input
\* compressed and switched do_compress off
EC_Probe ==
  /\ pc = "ec_probe"
  /\ \E compressed \in BOOLEAN, rc2 \in {OK, G10ERR_OPEN_FILE} :
       /\ loc' = [loc EXCEPT !.do_compress = IF compressed THEN FALSE ELSE @,
                             !.probe_off = compressed /\ loc.do_compress,
                             !.rc = IF rc2 # OK THEN rc2 ELSE @,
                             !.failed = IF rc2 # OK THEN @ \cup {"probe"}
                                        ELSE @]
       /\ pc' = IF rc2 # OK THEN "ec_leave" ELSE "ec_open_in"
  /\ UNCHANGED <<prog, opt, remusr, wl, inp, out, deks, efx, drv, status,
                 logs, seen, ret>>

\* prepare iobufs: the input
EC_OpenIn ==
  /\ pc = "ec_open_in"
  /\ \/ /\ logs' = logs \cup {"error: can't open"}
        /\ loc' = [loc EXCEPT !.rc = G10ERR_OPEN_FILE,
                              !.failed = @ \cup {"open_in"}]
        /\ pc' = "ec_leave"
        /\ UNCHANGED inp
     \/ /\ inp' = IF opt.textmode
                    THEN iobuf_push_filter(OpenStream, "text_filter")
                    ELSE OpenStream
        /\ pc' = "ec_open_out"
        /\ UNCHANGED <<loc, logs>>
  /\ UNCHANGED <<prog, opt, remusr, wl, out, deks, efx, drv, status, seen,
                 ret>>

\* prepare iobufs: the output
EC_OpenOut ==
  /\ pc = "ec_open_out"
  /\ \/ /\ loc' = [loc EXCEPT !.rc = G10ERR_OPEN_FILE,
                              !.failed = @ \cup {"open_out"}]
        /\ pc' = "ec_leave"
        /\ UNCHANGED out
     \/ /\ out' = OpenStream
        /\ pc' = "ec_armor"
        /\ UNCHANGED loc
  /\ UNCHANGED <<prog, opt, remusr, wl, inp, deks, efx, drv, status, logs,
                 seen, ret>>

EC_Armor ==
  /\ pc = "ec_armor"
  /\ out' = IF opt.armor THEN iobuf_push_filter(out, "armor_filter") ELSE out
  /\ pc' = "ec_dek"
  /\ UNCHANGED <<prog, opt, remusr, loc, wl, inp, deks, efx, drv, status,
                 logs, seen, ret>>

\* select_algo_from_prefs(pk_list, PREFTYPE_SYM) is called only without an
\* override; it hands back the common algorithm or -1
SymPrefs == IF opt.def_cipher_algo # NoCipherAlgo THEN {"unasked"}
            ELSE {NoCommonAlgo, "CIPHER_ALGO_AES"}

\* mutant: the no-common-algorithm value is kept as the DEK's algorithm
CryptCipherAlgo_NoFallback(pref) ==
  IF opt.def_cipher_algo # NoCipherAlgo THEN opt.def_cipher_algo
  ELSE pref

\* The cipher of the session key: the override, else the recipients' common
\* preference `pref', else 3DES.
CryptCipherAlgo(pref) ==
  IF opt.def_cipher_algo # NoCipherAlgo THEN opt.def_cipher_algo
  ELSE IF pref = NoCommonAlgo THEN CIPHER_ALGO_3DES
  ELSE pref

\* create a session key, then call write_pubkey_enc_from_list
EC_Dek ==
  /\ pc = "ec_dek"
  /\ \E pref \in SymPrefs :
       LET nd == NewDek([algo |-> CryptCipherAlgo(pref), pref |-> pref,
                         use_mdc |-> DekUseMdc(loc.pk_list),
                         keylen |-> 1, freed |-> 0, by |-> "encode_crypt"])
           idea == opt.def_cipher_algo = NoCipherAlgo /\ pref = NoCommonAlgo
                   /\ opt.pgp2
       IN /\ deks' = nd
          /\ loc' = [loc EXCEPT !.dek = Len(nd)]
          /\ wl' = [i |-> 1, dek |-> Len(nd), rc |-> OK,
                    caller |-> "encode_crypt"]
          /\ opt' = IF idea THEN ClearPgp2(opt) ELSE opt
          /\ logs' = IF idea
                       THEN logs \cup {"info: unable to use the IDEA cipher for all of the keys you are encrypting to"}
                       ELSE logs
  /\ pc' = "wpk"
  /\ UNCHANGED <<prog, remusr, inp, out, efx, drv, status, seen, ret>>

\* mutant: the result of write_pubkey_enc_from_list is logged, not acted on
EC_AfterWpk_GoOn ==
  /\ pc = "ec_after_wpk"
  /\ loc' = [loc EXCEPT !.rc = wl.rc,
                        !.failed = IF wl.rc # OK THEN @ \cup {"pubkey_enc"}
                                   ELSE @]
  /\ pc' = "ec_setup"
  /\ UNCHANGED <<prog, opt, remusr, wl, inp, out, deks, efx, drv, status,
                 logs, seen, ret>>

\* rc = write_pubkey_enc_from_list(...); if (rc) goto leave
EC_AfterWpk ==
  /\ pc = "ec_after_wpk"
  /\ loc' = [loc EXCEPT !.rc = wl.rc,
                        !.failed = IF wl.rc # OK THEN @ \cup {"pubkey_enc"}
                                   ELSE @]
  /\ pc' = IF wl.rc # OK THEN "ec_leave" ELSE "ec_setup"
  /\ UNCHANGED <<prog, opt, remusr, wl, inp, out, deks, efx, drv, status,
                 logs, seen, ret>>

\* set up the inner packet, the declared length and cfx.datalen
EC_Setup ==
  /\ pc = "ec_setup"
  /\ \E flen \in Sizes, set_filesize \in SetFileSizes :
       LET filesize == FileSize(loc.filename, flen, set_filesize) IN
       /\ loc' = [loc EXCEPT
                    !.filesize = filesize,
                    !.declared = DeclaredSize(loc.filename, flen,
                                            set_filesize),
                    !.pt = IF opt.no_literal THEN NoPt
                           ELSE Plaintext(filesize),
                    !.datalen = DataLen(filesize, loc.do_compress)]
       /\ logs' = IF loc.filename # NULL /\ ~opt.textmode /\ flen = 0
                    THEN logs \cup {"info: WARNING: empty file"} ELSE logs
  /\ pc' = "ec_push_cipher"
  /\ UNCHANGED <<prog, opt, remusr, wl, inp, out, deks, efx, drv, status,
                 seen, ret>>

\* register the cipher filter
EC_PushCipher ==
  /\ pc = "ec_push_cipher"
  /\ out' = push_cipher_filter(out, loc.dek)
  /\ pc' = "ec_push_compress"
  /\ UNCHANGED <<prog, opt, remusr, loc, wl, inp, deks, efx, drv, status,
                 logs, seen, ret>>

\* what select_algo_from_prefs(pk_list, PREFTYPE_ZIP) can hand back: -1 for
\* no algorithm common to the recipients, 0 for no compression, or the
\* number of an algorithm
ZipPrefs == {-1, 0, 1}

\* mutant: no common algorithm is taken as no compression, too
NoCompression_OrNoMatch(compr_algo) == compr_algo <= 0

\* if( !compr_algo ) ; /* don't use compression */
NoCompression(compr_algo) == compr_algo = 0

\* register the compress filter, unless the recipients' preferences say 0
EC_PushCompress ==
  /\ pc = "ec_push_compress"
  /\ IF loc.do_compress
       THEN \E compr_algo \in ZipPrefs :
              /\ out' = IF NoCompression(compr_algo) THEN out
                        ELSE iobuf_push_filter(out, "compress_filter")
              /\ loc' = [loc EXCEPT !.zip_asked = TRUE,
                                    !.compr_algo = compr_algo]
       ELSE UNCHANGED <<out, loc>>
  /\ pc' = IF opt.no_literal THEN "ec_copy" ELSE "ec_literal"
  /\ UNCHANGED <<prog, opt, remusr, wl, inp, deks, efx, drv, status,
                 logs, seen, ret>>

\* do the work: the literal packet
EC_Literal ==
  /\ pc = "ec_literal"
  /\ \E rc \in {OK, G10ERR_WRITE_FILE} :
       /\ out' = iobuf_put(out, [kind |-> "plaintext", pt |-> loc.pt],
                           rc = OK)
       /\ loc' = [loc EXCEPT
                    !.rc = rc,
                    !.failed = IF rc # OK THEN @ \cup {"plaintext"} ELSE @]
       /\ logs' = IF rc # OK THEN logs \cup {"error: build_packet failed"}
                  ELSE logs
  /\ pc' = "ec_leave"
  /\ UNCHANGED <<prog, opt, remusr, wl, inp, deks, efx, drv, status, seen,
                 ret>>

\* do the work: copy the plain data
EC_Copy ==
  /\ pc = "ec_copy"
  /\ \/ /\ pc' = "ec_leave"                        \* iobuf_read gives -1
        /\ UNCHANGED <<inp, out, loc, logs>>
     \/ /\ loc.nread < MaxChunks
        /\ ~InputEnded(inp)
        /\ \E ok \in BOOLEAN, len \in ChunkLens :
             /\ inp' = iobuf_get(inp, loc.nread + 1, len)
             /\ out' = iobuf_put(out, RawChunk(loc.nread + 1, len), ok)
             /\ loc' = [loc EXCEPT
                          !.nread = @ + 1,
                          !.rc = IF ok THEN @ ELSE G10ERR_WRITE_FILE,
                          !.failed = IF ok THEN @ ELSE @ \cup {"copy"}]
             /\ logs' = IF ok THEN logs
                        ELSE logs \cup {"error: copying input to output failed"}
             /\ pc' = IF ok THEN "ec_copy" ELSE "ec_leave"
  /\ UNCHANGED <<prog, opt, remusr, wl, deks, efx, drv, status, seen, ret>>

\* leave: finish the stuff
EC_Leave ==
  /\ pc = "ec_leave"
  /\ inp' = iobuf_close(inp)
  /\ out' = IF loc.rc # OK THEN iobuf_cancel(out) ELSE iobuf_close(out)
  /\ status' = IF loc.rc = OK THEN Append(status, "END_ENCRYPTION")
               ELSE status
  /\ deks' = m_free_dek(deks, loc.dek)
  /\ loc' = [loc EXCEPT !.pk_released = TRUE]
  /\ Return(loc.rc)
  /\ UNCHANGED <<prog, opt, remusr, wl, efx, drv, logs, seen>>

encode_crypt ==
  \/ EC_Call \/ EC_BuildPkList \/ EC_Pgp2 \/ EC_Probe \/ EC_OpenIn
  \/ EC_OpenOut \/ EC_Armor \/ EC_Dek \/ EC_AfterWpk \/ EC_Setup
  \/ EC_PushCipher \/ EC_PushCompress \/ EC_Literal \/ EC_Copy \/ EC_Leave

\* =========================================================== encrypt_filter
\* The cipher of the filter's session key: the override, else the recipients'
\* common preference `pref', else the default cipher.
FilterCipherAlgo(pref) ==
  IF opt.def_cipher_algo # NoCipherAlgo THEN opt.def_cipher_algo
  ELSE IF pref = NoCommonAlgo THEN DEFAULT_CIPHER_ALGO
  ELSE pref

\* control == IOBUFCTRL_FLUSH: with the header not yet written, create the
\* session key and call write_pubkey_enc_from_list; else write the data
EF_Flush ==
  /\ pc = "main" /\ prog = "encrypt_filter"
  /\ efx.flushes < MaxFlush
  /\ IF ~efx.header_okay
       THEN \E pref \in SymPrefs :
              LET nd == NewDek([algo |-> FilterCipherAlgo(pref),
                                pref |-> pref,
                                use_mdc |-> DekUseMdc(efx.pk_list),
                                keylen |-> 1, freed |-> 0,
                                by |-> "encrypt_filter"])
              IN /\ deks' = nd
                 /\ efx' = [efx EXCEPT !.dek = Len(nd), !.flushes = @ + 1]
                 /\ wl' = [i |-> 1, dek |-> Len(nd), rc |-> OK,
                           caller |-> "encrypt_filter"]
                 /\ pc' = "wpk"
                 /\ UNCHANGED <<out, ret>>
       ELSE \E rc \in {OK, G10ERR_WRITE_FILE} :
              /\ efx' = [efx EXCEPT !.flushes = @ + 1]
              /\ out' = iobuf_put(out, [kind |-> "data",
                                        flush |-> efx.flushes + 1], rc = OK)
              /\ ret' = rc
              /\ UNCHANGED <<deks, wl, pc>>
  /\ UNCHANGED <<prog, opt, remusr, loc, inp, drv, status, logs, seen>>

\* rc = write_pubkey_enc_from_list(...); if (rc) return rc; then the cipher
\* filter, header_okay = 1, and the data of this Flush
EF_AfterWpk ==
  /\ pc = "ef_after_wpk"
  /\ IF wl.rc # OK
       THEN /\ ret' = wl.rc
            /\ UNCHANGED <<out, efx>>
       ELSE \E rc \in {OK, G10ERR_WRITE_FILE} :
              /\ out' = iobuf_put(push_cipher_filter(out, efx.dek),
                                  [kind |-> "data", flush |-> efx.flushes],
                                  rc = OK)
              /\ efx' = [efx EXCEPT !.header_okay = TRUE,
                                    !.ready_at = efx.flushes]
              /\ ret' = rc
  /\ pc' = "main"
  /\ UNCHANGED <<prog, opt, remusr, loc, wl, inp, deks, drv, status, logs,
                 seen>>

\* control == IOBUFCTRL_FREE: the branch is empty; the filter ends here
EF_Free ==
  /\ pc = "main" /\ prog = "encrypt_filter"
  /\ efx' = [efx EXCEPT !.freed = TRUE]
  /\ ret' = OK
  /\ pc' = "done"
  /\ UNCHANGED <<prog, opt, remusr, loc, wl, inp, out, deks, drv, status,
                 logs, seen>>

\* control == IOBUFCTRL_DESC: hands back the filter's name
EF_Desc ==
  /\ pc = "main" /\ prog = "encrypt_filter"
  /\ ~efx.described
  /\ efx' = [efx EXCEPT !.described = TRUE]
  /\ UNCHANGED <<prog, opt, remusr, pc, loc, wl, inp, out, deks, drv, status,
                 logs, seen, ret>>

\* control == IOBUFCTRL_UNDERFLOW: BUG(), the program aborts
EF_Underflow ==
  /\ pc = "main" /\ prog = "encrypt_filter"
  /\ pc' = "abort"
  /\ UNCHANGED <<prog, opt, remusr, loc, wl, inp, out, deks, efx, drv,
                 status, logs, seen, ret>>

encrypt_filter ==
  \/ EF_Flush \/ EF_AfterWpk \/ EF_Free \/ EF_Desc \/ EF_Underflow

\* ======================================================= encode_crypt_files
\* --output does not work for this command; else take the items from the
\* argument vector (nfiles > 0) or from the lines of stdin
CF_Start ==
  /\ pc = "main" /\ prog = "encode_crypt_files"
  /\ \E n \in 0..MaxFiles :
       drv' = [NoDrv EXCEPT !.nfiles = n, !.given = n,
                            !.from_stdin = (n = 0)]
  /\ IF opt.outfile
       THEN /\ logs' = logs \cup {"error: --output doesn't work for this command"}
            /\ pc' = "done"
       ELSE /\ pc' = "cf_loop"
            /\ UNCHANGED logs
  /\ UNCHANGED <<prog, opt, remusr, loc, wl, inp, out, deks, efx, status,
                 seen, ret>>

\* the head of either loop: the next item, its FILE_START event, the call
CF_Next ==
  /\ pc = "cf_loop"
  /\ IF drv.from_stdin
       THEN \/ /\ pc' = "done"                          \* fgets gives NULL
               /\ UNCHANGED <<drv, status, logs>>
            \/ /\ drv.k < MaxFiles                      \* a line without LF
               /\ logs' = logs \cup {"error: input line too long or missing LF"}
               /\ drv' = [drv EXCEPT !.k = @ + 1]
               /\ pc' = "done"
               /\ UNCHANGED status
            \/ /\ drv.k < MaxFiles
               /\ drv' = [drv EXCEPT
                            !.k = @ + 1, !.cur = "file",
                            !.trace = Append(@, [ev |-> "FILE_START",
                                                 item |-> drv.k + 1])]
               /\ status' = <<"FILE_START">>
               /\ pc' = "cf_call"
               /\ UNCHANGED logs
       ELSE IF drv.nfiles = 0
              THEN /\ pc' = "done"
                   /\ UNCHANGED <<drv, status, logs>>
              ELSE /\ drv' = [drv EXCEPT
                                !.nfiles = @ - 1, !.k = @ + 1,
                                !.cur = "file",
                                !.trace = Append(@, [ev |-> "FILE_START",
                                                     item |-> drv.k + 1])]
                   /\ status' = <<"FILE_START">>
                   /\ pc' = "cf_call"
                   /\ UNCHANGED logs
  /\ UNCHANGED <<prog, opt, remusr, loc, wl, inp, out, deks, efx, seen,
                 ret>>

\* what the driver does when a call has returned: the call's outcome, then
\* the FILE_DONE event
AfterCall(d) ==
  [d EXCEPT !.trace = @ \o <<[ev |-> "return", item |-> d.k],
                             [ev |-> "FILE_DONE", item |-> d.k]>>]

\* mutant: the batch ends at the first item whose encryption fails
CF_DoneItem_StopOnFailure ==
  /\ pc = "cf_done_item"
  /\ logs' = IF ret # OK
               THEN logs \cup {"error: encryption failed"} ELSE logs
  /\ status' = Append(status, "FILE_DONE")
  /\ drv' = AfterCall(drv)
  /\ pc' = IF ret # OK THEN "done" ELSE "cf_loop"
  /\ loc' = NoLocals
  /\ wl' = NoWl
  /\ inp' = NoStream
  /\ out' = NoStream
  /\ deks' = <<>>
  /\ ret' = "none"
  /\ UNCHANGED <<prog, opt, remusr, efx, seen>>

\* after the call: log a failure, write FILE_DONE, go on with the next item
CF_DoneItem ==
  /\ pc = "cf_done_item"
  /\ logs' = IF ret # OK
               THEN logs \cup {"error: encryption failed"} ELSE logs
  /\ status' = Append(status, "FILE_DONE")
  /\ drv' = AfterCall(drv)
  /\ pc' = "cf_loop"
  /\ loc' = NoLocals            \* the callee's frame and heap are gone
  /\ wl' = NoWl
  /\ inp' = NoStream
  /\ out' = NoStream
  /\ deks' = <<>>
  /\ ret' = "none"
  /\ UNCHANGED <<prog, opt, remusr, efx, seen>>

encode_crypt_files == CF_Start \/ CF_Next \/ CF_DoneItem

\* ============================================================ the program
\* The options a run starts with.  An option no function of the run reads is
\* left at its default.  The batch runs vary the options the driver and the
\* calls it makes hand from one call to the next (pgp2 and what clears it),
\* and leave the stream options at their defaults: those are varied in the
\* single-message runs.
InitOptions(p) ==
  {o \in Options :
     /\ p # "encode_crypt_files" => ~o.outfile
     /\ p \in {"encode_symmetric", "encode_store", "encrypt_filter"}
          => ~o.pgp2
     /\ p = "encrypt_filter"
          => /\ ~o.compress /\ ~o.rfc1991 /\ ~o.no_literal
     /\ p \in {"encrypt_filter", "encode_crypt_files"}
          => /\ ~o.armor /\ ~o.textmode}

InitFor(P) ==
  /\ prog \in P
  /\ opt \in InitOptions(prog)
  /\ remusr \in IF prog \in {"encode_symmetric", "encode_store"} THEN {<<>>}
                ELSE IF prog = "encrypt_filter" THEN KeyLists(0)
                ELSE KeyLists(1)
  /\ pc = "main"
  /\ loc = NoLocals
  /\ wl = NoWl
  /\ inp = NoStream
  /\ out = IF prog = "encrypt_filter" THEN OpenStream ELSE NoStream
  /\ deks = <<>>
  /\ efx = [NoEfx EXCEPT !.pk_list = IF prog = "encrypt_filter" THEN remusr
                                     ELSE <<>>]
  /\ drv = NoDrv
  /\ status = <<>>
  /\ logs = {}
  /\ seen = <<>>
  /\ ret = "none"

\* one message: encode_symmetric, encode_store, encode_crypt, or a stream
\* with the encrypt_filter on it
Init ==
  InitFor({"encode_symmetric", "encode_store", "encode_crypt",
           "encrypt_filter"})

Next ==
  \/ encode_simple
  \/ encode_crypt
  \/ WritePubkeyEnc
  \/ encrypt_filter

Spec == Init /\ [][Next]_vars

\* a batch: encode_crypt_files and the encode_crypt calls it makes
InitFiles == InitFor({"encode_crypt_files"})

NextFiles ==
  \/ encode_crypt_files
  \/ encode_crypt
  \/ WritePubkeyEnc

SpecFiles == InitFiles /\ [][NextFiles]_vars

\* ================================================================ claims
\* ---- what the formulas below read off a state
\* the running call has returned to its caller
Returned(fn) == loc.fn = fn /\ pc \in {"done", "cf_done_item"}

\* the places in the output's log of the writes of the given kinds
Writes(kinds) == {i \in 1..Len(out.log) : out.log[i].what.kind \in kinds}

BodyKinds == {"plaintext", "raw"}

KeyKinds == {"pubkey_enc", "symkey_enc"}

Has(seq, x) == \E i \in 1..Len(seq) : seq[i] = x

Count(seq, x) == Cardinality({i \in 1..Len(seq) : seq[i] = x})

\* x comes before y wherever both are in seq
Before(seq, x, y) ==
  \A i, j \in 1..Len(seq) : seq[i] = x /\ seq[j] = y => i < j

\* ---- C1
\* C1: in encode_crypt, once wrapping the session key or writing its packet
\* has failed for a recipient, the loop has stopped at that recipient (no
\* packet of a later recipient is in the output, every earlier one is), the
\* cipher filter is not pushed, no body was written, the output is never
\* closed, and on return encode_crypt hands back that same non-zero error
\* with the output cancelled.
C1_KeyWrapFailureAborts ==
  (loc.fn = "encode_crypt" /\ "pubkey_enc" \in loc.failed) =>
    /\ wl.rc # OK
    /\ loc.rc = wl.rc
    /\ \A i \in Writes({"pubkey_enc"}) : out.log[i].what.keyid <= wl.i
    /\ \A k \in 1..(wl.i - 1) :
         \E i \in Writes({"pubkey_enc"}) :
           out.log[i].what.keyid = k /\ out.log[i].ok
    /\ \A i \in Writes({"pubkey_enc"}) :
         out.log[i].what.keyid = wl.i => ~out.log[i].ok
    /\ ~Has(out.filters, "cipher_filter")
    /\ Writes(BodyKinds) = {}
    /\ out.state # "closed"
    /\ pc \in {"ec_leave", "done", "cf_done_item"}
    /\ Returned("encode_crypt") =>
         /\ ret = wl.rc
         /\ out.state = "cancelled"
         /\ status = <<>>

\* C1 witness: encode_crypt has returned after the wrap failed for the first
\* of two recipients
C1_Witness ==
  /\ Returned("encode_crypt")
  /\ "pubkey_enc" \in loc.failed
  /\ Len(loc.pk_list) = 2
  /\ wl.i = 1
  /\ ret = "G10ERR_PUBKEY_ALGO"

\* ---- C2
\* C2: when encode_simple or encode_crypt returns with the output opened, a
\* failed step (session-key packet, literal packet, copy loop) means a
\* non-zero return and a cancelled output, and a zero return means a closed
\* output and no failed packet write.
C2_FailureCancelsOutput ==
  (\/ Returned("encode_simple") \/ Returned("encode_crypt")) /\ out.state # NULL
    =>
    /\ loc.failed # {} => ret # OK /\ out.state = "cancelled"
    /\ ret = OK => out.state = "closed" /\ \A i \in 1..Len(out.log) : out.log[i].ok
    /\ ret # OK => out.state = "cancelled"

\* ---- C3
Rank(f) ==
  CASE f = "armor_filter" -> 1
    [] f = "cipher_filter" -> 2
    [] f = "compress_filter" -> 3
    [] OTHER -> 0

CipherWanted == loc.fn = "encode_crypt" \/ loc.mode # 0

\* C3: in encode_simple and encode_crypt the output's filters are pushed in
\* the order armor, cipher, compress, each at most once and only when it is
\* enabled; every write of body data goes through the filters present in
\* the order compress, cipher, armor, so that the compress filter is never
\* behind the cipher filter and the armor filter is never ahead of it.
C3_FilterOrder ==
  loc.fn \in {"encode_simple", "encode_crypt"} =>
    /\ \A i, j \in 1..Len(out.filters) :
         i < j => Rank(out.filters[i]) < Rank(out.filters[j])
    /\ \A i \in 1..Len(out.filters) : Rank(out.filters[i]) > 0
    /\ Has(out.filters, "armor_filter") => opt.armor
    /\ Has(out.filters, "cipher_filter") => CipherWanted
    /\ Has(out.filters, "compress_filter") => loc.do_compress
    /\ \A w \in Writes(BodyKinds) :
         LET via == out.log[w].via IN
         /\ \A a, b \in 1..Len(via) : a < b => Rank(via[a]) > Rank(via[b])
         /\ Before(via, "compress_filter", "cipher_filter")
         /\ Before(via, "cipher_filter", "armor_filter")
         /\ Before(via, "compress_filter", "armor_filter")
         /\ opt.armor => Has(via, "armor_filter")
         /\ CipherWanted => Has(via, "cipher_filter")
         /\ Has(via, "compress_filter") => loc.do_compress
         /\ (loc.fn = "encode_simple" /\ loc.do_compress)
              => Has(via, "compress_filter")

\* C3 witness: encode_crypt wrote body data through all three filters
C3_Witness ==
  /\ loc.fn = "encode_crypt"
  /\ out.filters = <<"armor_filter", "cipher_filter", "compress_filter">>
  /\ \E w \in Writes(BodyKinds) :
       /\ out.log[w].ok
       /\ out.log[w].via
            = <<"compress_filter", "cipher_filter", "armor_filter">>

\* ---- C4
\* C4: over any sequence of Flush calls of encrypt_filter, at most one DEK is
\* created, each recipient's session-key packet is written at most once, the
\* cipher filter is pushed at most once, the filter is Ready (header_okay)
\* from the end of the first Flush call on, and then every recipient's packet
\* is in the output, ahead of every data write and written before the cipher
\* filter was pushed.
C4_HeaderOnceOnFirstFlush ==
  prog = "encrypt_filter" =>
    /\ Len(deks) <= 1
    /\ \A k \in 1..Len(efx.pk_list) :
         Cardinality({i \in Writes({"pubkey_enc"}) :
                        out.log[i].what.keyid = k}) <= 1
    /\ Count(out.filters, "cipher_filter") <= 1
    /\ (efx.flushes >= 1 /\ pc \in {"main", "done"}) =>
         efx.header_okay /\ efx.ready_at = 1
    /\ efx.header_okay =>
         /\ Cardinality(Writes({"pubkey_enc"})) = Len(efx.pk_list)
         /\ \A i \in Writes({"pubkey_enc"}) :
              out.log[i].ok /\ ~Has(out.log[i].via, "cipher_filter")
    /\ \A i \in Writes({"pubkey_enc"}), j \in Writes({"data"}) : i < j
    /\ \A j \in Writes({"data"}) : Has(out.log[j].via, "cipher_filter")

\* ---- C5
\* C5: when encode_crypt returns 0 for the recipients r1..rn, the first n
\* writes to the output are the session-key packets of r1..rn in that order,
\* all written successfully, all for the one DEK of the call and all before
\* the cipher filter was pushed; the cipher filter is pushed exactly once,
\* with that DEK, and every write of body data comes later and through it.
C5_OnePacketPerRecipient ==
  (Returned("encode_crypt") /\ ret = OK) =>
    LET n == Len(loc.pk_list) IN
    /\ n >= 1
    /\ Writes({"pubkey_enc"}) = 1..n
    /\ \A k \in 1..n :
         /\ out.log[k].what.kind = "pubkey_enc"
         /\ out.log[k].what.keyid = k
         /\ out.log[k].what.dek = loc.dek
         /\ out.log[k].ok
         /\ ~Has(out.log[k].via, "cipher_filter")
    /\ Len(deks) = 1 /\ loc.dek = 1
    /\ Count(out.filters, "cipher_filter") = 1
    /\ out.cipher_dek = loc.dek
    /\ \A w \in Writes(BodyKinds) :
         w > n /\ Has(out.log[w].via, "cipher_filter")

\* C5 witness: encode_crypt returned 0 for two recipients, body data written
C5_Witness ==
  /\ Returned("encode_crypt")
  /\ ret = OK
  /\ Len(loc.pk_list) = 2
  /\ Writes({"pubkey_enc"}) = {1, 2}
  /\ Writes(BodyKinds) # {}

\* ---- C6
\* C6: with a literal packet set up, a declared plaintext size (the length
\* of the input file, or the size the caller supplied) at or above
\* IOBUF_FILELENGTH_LIMIT gives pt->len = 0, and a declared size that is
\* known and below the limit gives pt->len equal to it.
C6_LiteralLength ==
  (loc.fn \in {"encode_simple", "encode_crypt"} /\ loc.pt # NoPt) =>
    /\ loc.declared >= IOBUF_FILELENGTH_LIMIT => loc.pt.len = 0
    /\ (loc.declared # 0 /\ loc.declared < IOBUF_FILELENGTH_LIMIT)
         => loc.pt.len = loc.declared

\* ---- C7
\* C7: no DEK is released twice, and when the operation or filter that
\* created a DEK has ended, every DEK created has been released exactly once.
C7_DekReleasedExactlyOnce ==
  /\ \A d \in 1..Len(deks) : deks[d].freed <= 1
  /\ pc \in {"done", "cf_done_item"} =>
       \A d \in 1..Len(deks) : deks[d].freed = 1

\* ---- C8
\* C8: in encode_simple in symmetric mode, once passphrase_to_dek has handed
\* back no DEK or a DEK without key bytes, the call has returned
\* G10ERR_PASSPHRASE, the output was never opened, written or given a filter,
\* the input is closed (once), no status event was written and whatever DEK
\* came back is released.
C8_PassphraseFailure ==
  (loc.fn = "encode_simple" /\ loc.got \in {"none", "nokey"}) =>
    /\ loc.mode = 1
    /\ pc = "done"
    /\ ret = G10ERR_PASSPHRASE
    /\ out = NoStream
    /\ inp.state = "closed" /\ inp.closes = 1
    /\ status = <<>>
    /\ \A d \in 1..Len(deks) : deks[d].freed = 1
    /\ loc.got = "none" <=> deks = <<>>

\* C8 witness: the call has returned after a DEK without key bytes came back
C8_Witness ==
  /\ loc.fn = "encode_simple"
  /\ loc.got = "nokey"
  /\ pc = "done"
  /\ Len(deks) = 1

\* ---- C9
Pgp2Warning ==
  "info: you can only encrypt to RSA keys of 2048 bits or less in --pgp2 mode"

\* the call came in with --pgp2 set and a key that does not fit it, and the
\* check of the keys has run
Pgp2Downgraded ==
  /\ loc.fn = "encode_crypt"
  /\ loc.pgp2_in
  /\ loc.pk_list # <<>>
  /\ ~AllLegacyKeys(loc.pk_list)
  /\ pc # "ec_pgp2"

\* C9: in encode_crypt with --pgp2 requested and a recipient key that is not
\* an RSA key of at most 2048 bits, opt.pgp2 is cleared and a warning (no
\* error) is logged; the check leaves rc at 0, and if no later step fails
\* the call returns 0 with the message written and the output closed.
C9_LegacyDowngradeIsWarning ==
  Pgp2Downgraded =>
    /\ ~opt.pgp2
    /\ Pgp2Warning \in logs
    /\ pc = "ec_probe" => loc.rc = OK /\ logs = {Pgp2Warning}
    /\ (Returned("encode_crypt") /\ loc.failed = {}) =>
         /\ ret = OK
         /\ out.state = "closed"
         /\ status = <<"END_ENCRYPTION">>
         /\ Writes({"pubkey_enc"}) = 1..Len(loc.pk_list)
         /\ \A i \in 1..Len(out.log) : out.log[i].ok

\* C9 witness: such a call has returned 0 with the output closed
C9_Witness ==
  /\ Pgp2Downgraded
  /\ Returned("encode_crypt")
  /\ ret = OK
  /\ out.state = "closed"
  /\ Writes(BodyKinds) # {}

\* ---- C10
\* C10 as stated: every encode_crypt call of a batch sees the configuration
\* and the recipient set the call before it saw.
C10_NothingCrossesCalls ==
  \A k \in 1..(Len(seen) - 1) : seen[k + 1] = seen[k]

\* C10 as amended: every encode_crypt call of a batch sees the recipient set
\* and every option but opt.pgp2 as the call before it saw them; opt.pgp2 is
\* either as the call before saw it or was cleared by that call, and it is
\* never set again.
C10_OnlyPgp2Crosses ==
  \A k \in 1..(Len(seen) - 1) :
    /\ seen[k + 1].remusr = seen[k].remusr
    /\ [seen[k + 1].opt EXCEPT !.pgp2 = FALSE]
         = [seen[k].opt EXCEPT !.pgp2 = FALSE]
    /\ seen[k + 1].opt.pgp2 => seen[k].opt.pgp2
    /\ seen[k + 1].opt.pgp2 # seen[k].opt.pgp2
         => ~AllLegacyKeys(seen[k].remusr)
            \/ seen[k].opt.def_cipher_algo = NoCipherAlgo

\* C10 witness: the second call of a batch runs with opt.pgp2 cleared by the
\* first, the options otherwise as they were
C10_Witness ==
  /\ Len(seen) >= 2
  /\ seen[1].opt.pgp2
  /\ ~seen[2].opt.pgp2
  /\ seen[1].opt.rfc1991 /\ seen[2].opt.rfc1991

\* ---- C11
\* the j-th thing a batch does belongs to item (j - 1) \div 4 + 1 and is of
\* the kind its place in the item's four steps says
InItemOrder(trace) ==
  \A j \in 1..Len(trace) :
    /\ trace[j].item = ((j - 1) \div 4) + 1
    /\ trace[j].ev \in
         CASE (j - 1) % 4 = 0 -> {"FILE_START"}
           [] (j - 1) % 4 = 1 -> {"call"}
           [] (j - 1) % 4 = 2 -> {"return"}
           [] OTHER -> {"FILE_DONE"}

Calls(trace) == {j \in 1..Len(trace) : trace[j].ev = "call"}

BadLine == "error: input line too long or missing LF" \in logs

\* C11 as stated: every item given to encode_crypt_files (every file name,
\* every line read from standard input) gets exactly one encode_crypt call.
C11_OneCallPerItem ==
  (prog = "encode_crypt_files" /\ pc = "done") =>
    Cardinality(Calls(drv.trace))
      = IF drv.from_stdin THEN drv.k ELSE drv.given

\* C11 as amended: without --output, encode_crypt_files makes exactly one
\* encode_crypt call for each file name given, or for each line of standard
\* input ahead of the first line that is too long or lacks its line feed
\* (that line ends the batch: no event and no call for it); the items are
\* taken in order, each item's steps are file-start event, call, return,
\* file-done event, each one done before the next item starts, whether the
\* call failed or not.  With --output set no call is made at all.
C11_OneCallPerGoodItem ==
  prog = "encode_crypt_files" =>
    /\ InItemOrder(drv.trace)
    /\ Len(seen) = Cardinality(Calls(drv.trace))
    /\ pc = "cf_call" => status = <<"FILE_START">>
    /\ pc = "cf_done_item" => status = <<"FILE_START">>
                                \/ status = <<"FILE_START", "END_ENCRYPTION">>
    /\ (pc = "cf_loop" /\ drv.trace # <<>>) =>
         /\ status[1] = "FILE_START"
         /\ status[Len(status)] = "FILE_DONE"
         /\ Count(status, "FILE_START") = 1
         /\ Count(status, "FILE_DONE") = 1
    /\ pc = "done" =>
         /\ Len(drv.trace) = 4 * Cardinality(Calls(drv.trace))
         /\ Cardinality(Calls(drv.trace))
              = IF opt.outfile THEN 0
                ELSE IF ~drv.from_stdin THEN drv.given
                ELSE IF BadLine THEN drv.k - 1
                ELSE drv.k

\* C11 witness: in a batch of two files the call for the first one has
\* failed, and the driver has written the second one's file-start event
\* and is about to call encode_crypt for it
C11_Witness ==
  /\ prog = "encode_crypt_files"
  /\ pc = "cf_call"
  /\ drv.given = 2
  /\ drv.k = 2
  /\ Len(drv.trace) = 5
  /\ "error: encryption failed" \in logs
  /\ status = <<"FILE_START">>

\* ---- C12
\* encode_simple has the output open and is past the session-key packet step
PastSymkey ==
  /\ loc.fn = "encode_simple"
  /\ out.state # NULL
  /\ pc \notin {"main", "es_probe", "es_open_in", "es_dek", "es_open_out",
                "es_armor", "es_symkey"}

PastPushCompress ==
  /\ loc.fn = "encode_crypt"
  /\ pc \in {"ec_literal", "ec_copy"}
     \/ (pc \in {"ec_leave", "done", "cf_done_item"}
         /\ Has(out.filters, "cipher_filter"))

\* compression is enabled, rfc1991 format is off and the probe of the input
\* did not switch it off
CompressionWanted == opt.compress /\ ~opt.rfc1991 /\ ~loc.probe_off

\* C13 as stated: in encode_crypt the compress filter is pushed only with
\* compression wanted, and never when select_algo_from_prefs reported no
\* common compression algorithm (-1).
C13_NoCommonZipSkips ==
  loc.fn = "encode_crypt" =>
    /\ Has(out.filters, "compress_filter") => CompressionWanted
    /\ (loc.zip_asked /\ loc.compr_algo = -1)
         => ~Has(out.filters, "compress_filter")

\* C13 as amended: in encode_crypt the compress filter is pushed only with
\* compression enabled, rfc1991 format off and the input not found to be
\* compressed; the recipients' preferences are asked only then, and the
\* filter is left out exactly when they select 0 (no compression): for every
\* other answer, the no-match value -1 included, it is pushed, once.
C13_ZeroPrefSkips ==
  loc.fn = "encode_crypt" =>
    /\ Has(out.filters, "compress_filter") => CompressionWanted
    /\ loc.zip_asked => CompressionWanted /\ loc.do_compress
    /\ PastPushCompress =>
         /\ loc.zip_asked <=> CompressionWanted
         /\ Count(out.filters, "compress_filter")
              = IF CompressionWanted /\ loc.compr_algo # 0 THEN 1 ELSE 0
    /\ ~PastPushCompress => ~Has(out.filters, "compress_filter")

\* C13 witness: the preferences had no common algorithm and the message was
\* written through the compress filter
C13_Witness ==
  /\ Returned("encode_crypt")
  /\ ret = OK
  /\ loc.zip_asked
  /\ loc.compr_algo = -1
  /\ \E w \in Writes(BodyKinds) : Has(out.log[w].via, "compress_filter")

\* ---- C14
\* the DEKs made by encode_crypt and by encrypt_filter
SessionKeys ==
  {d \in 1..Len(deks) : deks[d].by \in {"encode_crypt", "encrypt_filter"}}

FixedDefault(by) ==
  IF by = "encode_crypt" THEN CIPHER_ALGO_3DES ELSE DEFAULT_CIPHER_ALGO

\* C14: the cipher of every DEK made by encode_crypt or encrypt_filter is
\* the override opt.def_cipher_algo if one is set, else the algorithm the
\* recipients' preferences select if there is one, else the function's fixed
\* default; it is never the no-common-algorithm value, and a missing common
\* preference is no error: the call goes on to wrap the key with rc 0 and,
\* with no later step failing, returns 0.
C14_CipherChoice ==
  /\ \A d \in SessionKeys :
       /\ deks[d].algo # NoCommonAlgo
       /\ deks[d].algo # NoCipherAlgo
       /\ deks[d].algo =
            IF opt.def_cipher_algo # NoCipherAlgo THEN opt.def_cipher_algo
            ELSE IF deks[d].pref # NoCommonAlgo THEN deks[d].pref
            ELSE FixedDefault(deks[d].by)
       /\ deks[d].pref = "unasked" <=> opt.def_cipher_algo # NoCipherAlgo
  /\ (loc.fn = "encode_crypt" /\ pc = "wpk" /\ wl.i = 1) =>
       loc.rc = OK /\ loc.failed = {}
  /\ (Returned("encode_crypt") /\ loc.failed = {}) => ret = OK
  /\ (prog = "encrypt_filter" /\ pc = "wpk" /\ wl.i = 1) => wl.rc = OK

\* C14 witness: encode_crypt has returned 0 for a message whose recipients
\* had no common cipher preference; the DEK's cipher is 3DES
C14_Witness ==
  /\ Returned("encode_crypt")
  /\ ret = OK
  /\ Len(deks) = 1
  /\ deks[1].pref = NoCommonAlgo
  /\ deks[1].algo = CIPHER_ALGO_3DES

\* ---- C15
\* the recipient list of the running message
MessageKeys == IF prog = "encrypt_filter" THEN efx.pk_list ELSE loc.pk_list

\* C15: every DEK made by encode_crypt or encrypt_filter carries one use_mdc
\* value, set when the DEK is made and before the key is wrapped for any
\* recipient: it is on exactly when every key of the whole recipient list
\* supports the MDC, with or without a cipher override; every session-key
\* packet of the message is for a DEK with that value, and so is the cipher
\* filter.
C15_MdcAllOrNothing ==
  LET all == \A i \in 1..Len(MessageKeys) : MessageKeys[i].mdc IN
  /\ \A d \in SessionKeys : deks[d].use_mdc = all
  /\ \A w \in Writes({"pubkey_enc"}) :
       /\ out.log[w].what.dek \in SessionKeys
       /\ deks[out.log[w].what.dek].use_mdc = all
  /\ (pc = "wpk" /\ wl.i = 1) =>
       /\ wl.dek \in SessionKeys
       /\ \A w \in Writes({"pubkey_enc"}) : out.log[w].what.dek # wl.dek
  /\ (Has(out.filters, "cipher_filter") /\ loc.fn # "encode_simple") =>
       out.cipher_dek \in SessionKeys

\* C15 witness: a message for two recipients, one without MDC support, was
\* written with a cipher override: use_mdc is off for both packets
C15_Witness ==
  /\ Returned("encode_crypt")
  /\ ret = OK
  /\ opt.def_cipher_algo # NoCipherAlgo
  /\ Len(loc.pk_list) = 2
  /\ loc.pk_list[1].mdc /\ ~loc.pk_list[2].mdc
  /\ Writes({"pubkey_enc"}) = {1, 2}
  /\ ~deks[1].use_mdc

\* ---- C16
\* the chunks read from the input and the chunks written to the output, in
\* the order of the reads and of the writes
RECURSIVE ChunksOf(_, _)
ChunksOf(log, kind) ==
  IF log = <<>> THEN <<>>
  ELSE IF Head(log).what.kind = kind
    THEN <<[chunk |-> Head(log).what.chunk, len |-> Head(log).what.len]>>
           \o ChunksOf(Tail(log), kind)
  ELSE ChunksOf(Tail(log), kind)

CopyDone ==
  \/ pc \in {"es_finish", "ec_leave"}
  \/ Returned("encode_simple") \/ Returned("encode_crypt")

\* C16: with opt.no_literal, the chunks written by the copy loop of
\* encode_simple and encode_crypt are the chunks read from the input, in the
\* same order and with the same bytes, each of at most 4096 bytes; every
\* write but the last succeeded; a failed write is the last chunk read and
\* written, leaves rc = G10ERR_WRITE_FILE and makes the call return it; an
\* input with no chunk writes nothing and, with no earlier failure, the
\* call returns 0.
C16_CopyLoop ==
  (loc.fn \in {"encode_simple", "encode_crypt"} /\ opt.no_literal) =>
    LET raw == Writes({"raw"})
        rd == ChunksOf(inp.log, "read")
        wr == ChunksOf(out.log, "raw")
    IN
    /\ wr = rd
    /\ Len(rd) = loc.nread
    /\ \A k \in 1..Len(wr) :
         /\ wr[k].chunk = k
         /\ wr[k].len <= 4096
    /\ Writes({"plaintext"}) = {}
    /\ \A w \in raw : ~out.log[w].ok =>
         /\ w = Len(out.log)
         /\ pc \notin {"es_copy", "ec_copy"}
         /\ loc.rc = G10ERR_WRITE_FILE
         /\ "copy" \in loc.failed
    /\ "copy" \in loc.failed =>
         /\ raw # {}
         /\ ~out.log[Len(out.log)].ok
         /\ (Returned("encode_simple") \/ Returned("encode_crypt")) =>
              ret = G10ERR_WRITE_FILE /\ out.state = "cancelled"
    /\ (CopyDone /\ loc.nread = 0) => "copy" \notin loc.failed /\ raw = {}
    /\ ((Returned("encode_simple") \/ Returned("encode_crypt"))
        /\ loc.failed = {}) => ret = OK /\ out.state = "closed"

\* C16 witness: a copy of two chunks, a full buffer and a short one, whose
\* second write failed
C16_Witness ==
  /\ Returned("encode_crypt")
  /\ opt.no_literal
  /\ ChunksOf(out.log, "raw")
       = <<[chunk |-> 1, len |-> 4096], [chunk |-> 2, len |-> 1]>>
  /\ ~out.log[Len(out.log)].ok
  /\ ret = G10ERR_WRITE_FILE

\* ---- C17
\* a call of encode_simple or encode_crypt is running or has returned
InMessageCall == loc.fn \in {"encode_simple", "encode_crypt"}

\* stream s was ended no more than once, and only as the call returned; once
\* the call has returned, an opened stream has been ended
EndedOnce(s) ==
  /\ s.closes <= 1
  /\ s.state = NULL => s.closes = 0 /\ s.log = <<>>
  /\ s.state = "open" => s.closes = 0
  /\ s.state \in {"closed", "cancelled"} => s.closes = 1
  /\ (Returned("encode_simple") \/ Returned("encode_crypt"))
       => s.state # "open"
  /\ s.closes > 0 => Returned("encode_simple") \/ Returned("encode_crypt")

\* C17: in encode_simple and encode_crypt a stream that was never opened is
\* never closed or cancelled; an opened stream is closed or cancelled at
\* most once, and exactly once by the time the call has returned, the output
\* either closed or cancelled according to the last operation on it; the
\* output is opened only with the input open; nothing is written to the
\* output once it is closed or cancelled, which happens only as the call
\* returns.
C17_StreamsEndedOnce ==
  InMessageCall =>
    /\ EndedOnce(inp)
    /\ EndedOnce(out)
    /\ ~out.written_after_end
    /\ out.state # NULL => inp.state # NULL
    /\ inp.state # "cancelled" \/ out.state = NULL

\* C17 witness: encode_crypt has returned after a failed write; the input was
\* closed once and the output, with data in it, cancelled once
C17_Witness ==
  /\ Returned("encode_crypt")
  /\ inp.state = "closed" /\ inp.closes = 1
  /\ out.state = "cancelled" /\ out.closes = 1
  /\ Writes(BodyKinds) # {}

\* ---- C18
\* C18: the END_ENCRYPTION status is written at most once, and only as
\* encode_simple or encode_crypt returns 0 with the output closed, not
\* cancelled and not unopened; encode_simple never writes it in store-only
\* mode (mode 0).
C18_EndStatusAfterClose ==
  /\ Count(status, "END_ENCRYPTION") <= 1
  /\ Has(status, "END_ENCRYPTION") =>
       /\ Returned("encode_simple") \/ Returned("encode_crypt")
       /\ ret = OK
       /\ loc.rc = OK
       /\ out.state = "closed"
       /\ out.closes = 1
       /\ loc.fn = "encode_simple" => loc.mode # 0
  /\ (InMessageCall /\ out.state \in {NULL, "open", "cancelled"})
       => status = <<>>

\* C18 witness: a symmetric encode_simple call has returned 0 and written
\* the status once, the output closed
C18_Witness ==
  /\ Returned("encode_simple")
  /\ loc.mode = 1
  /\ ret = OK
  /\ out.state = "closed"
  /\ status = <<"END_ENCRYPTION">>

\* ---- C19
\* C19: in encode_simple and encode_crypt cfx.datalen is non-zero only with
\* a non-zero filesize and compression not selected; with the compress
\* filter on the output cfx.datalen is 0.
C19_DataLenOnlyUncompressed ==
  InMessageCall =>
    /\ loc.datalen # ZeroLen => loc.filesize # 0 /\ ~loc.do_compress
    /\ Has(out.filters, "compress_filter") => loc.datalen = ZeroLen

\* C19 witness: encode_crypt wrote a file of known size through the compress
\* filter and cfx.datalen is 0
C19_Witness ==
  /\ Returned("encode_crypt")
  /\ ret = OK
  /\ loc.filesize # 0
  /\ Has(out.filters, "compress_filter")
  /\ loc.datalen = ZeroLen
  /\ \E w \in Writes(BodyKinds) : Has(out.log[w].via, "compress_filter")

====
